---- MODULE Spec2Model ----
(***************************************************************************)
(* Order lifecycle of the pharmacy backend: the status endpoints of        *)
(* pharmacy/router.py (v1) and pharmacy_v2.py (v2, "agentic"), the order   *)
(* store of pharmacy/service.py in its two modes (the in-memory            *)
(* _MOCK_ORDERS_DB when firebase_service.mock_mode is set, the Firestore   *)
(* collection pharmacy_orders otherwise), the background tasks the v2      *)
(* endpoint registers, and the inventory collection of                     *)
(* pharmacy/inventory_service.py.                                          *)
(*                                                                         *)
(* Time is counted in minutes since the module import of service.py, so    *)
(* the seeded timestamps (_now() - timedelta(...)) are negative.           *)
(***************************************************************************)
EXTENDS Integers, Sequences, FiniteSets, TLC

\* ------------------------------------------------------------------ bounds
\* The wall clock advances at most this many minutes.
MaxClock == 1
\* Total number of HTTP requests issued in a run.
MaxRequests == 2
\* Number of orders create_order may add to Firestore.
MaxCreated == 1

\* Requests in flight at the same time (slots of the server).
Reqs == {1, 2}

\* ------------------------------------------------------------ program data
\* pharmacy/models.py, PrescriptionStatus
PrescriptionStatus ==
    {"NEW", "ACCEPTED", "PREPARING", "READY", "DELIVERED", "PICKED_UP", "REJECTED"}

\* pharmacy/service.py, STATUS_COLOR_MAP
STATUS_COLOR_MAP ==
    [s \in PrescriptionStatus |->
        CASE s = "NEW" -> "teal"
          [] s = "ACCEPTED" -> "blue"
          [] s = "PREPARING" -> "amber"
          [] s = "READY" -> "green"
          [] s = "DELIVERED" -> "green"
          [] s = "PICKED_UP" -> "gray"
          [] s = "REJECTED" -> "red"]

\* An Optional[datetime] / Optional[str] value: Python's None, a datetime
\* object, or the ISO-8601 string _ts_to_iso makes of one.
None == [kind |-> "None", t |-> 0]
Datetime(t) == [kind |-> "datetime", t |-> t]
IsoString(t) == [kind |-> "str", t |-> t]

\* pharmacy/service.py, _ts_to_iso: None stays None, a string is returned as
\* it is, a datetime becomes its ISO string.
_ts_to_iso(dt) ==
    IF dt = None THEN None
    ELSE IF dt.kind = "str" THEN dt
    ELSE IsoString(dt.t)

\* One entry of _MOCK_ORDERS_DB; h and m are the timedelta arguments.
Ago(d, h, m) == _ts_to_iso(Datetime(0 - (d * 1440 + h * 60 + m)))

MockOrder(id, st, c, a, r, d) ==
    [id |-> id, status |-> st, color_code |-> STATUS_COLOR_MAP[st],
     created_at |-> c, accepted_at |-> a, ready_at |-> r, completed_at |-> d]

\* pharmacy/service.py, _MOCK_ORDERS_DB as written in the source.
_MOCK_ORDERS_DB_seed ==
    << MockOrder("RX-1001", "NEW", Ago(0, 1, 0), None, None, None),
       MockOrder("RX-1002", "ACCEPTED", Ago(0, 3, 0), Ago(0, 2, 30), None, None),
       MockOrder("RX-1003", "PREPARING", Ago(0, 5, 0), Ago(0, 4, 30), None, None),
       MockOrder("RX-1004", "READY", Ago(0, 8, 0), Ago(0, 7, 30), Ago(0, 6, 0), None),
       MockOrder("RX-1005", "DELIVERED", Ago(0, 12, 0), Ago(0, 11, 30), Ago(0, 10, 0), Ago(0, 9, 0)),
       MockOrder("RX-1006", "NEW", Ago(0, 0, 30), None, None, None),
       MockOrder("RX-1011", "NEW", Ago(0, 0, 20), None, None, None),
       MockOrder("RX-1012", "NEW", Ago(0, 0, 15), None, None, None),
       MockOrder("RX-1013", "NEW", Ago(0, 0, 10), None, None, None),
       MockOrder("RX-1014", "NEW", Ago(0, 0, 5), None, None, None),
       MockOrder("RX-1007", "REJECTED", Ago(1, 0, 0), None, None, None),
       MockOrder("RX-1008", "PICKED_UP", Ago(2, 0, 0), Ago(2, 1, 0), Ago(2, 2, 0), Ago(2, 3, 0)),
       MockOrder("RX-1009", "ACCEPTED", Ago(0, 2, 0), Ago(0, 1, 30), None, None),
       MockOrder("RX-1010", "PREPARING", Ago(0, 4, 0), Ago(0, 3, 30), None, None) >>

\* Ids create_order draws (f"RX-{uuid4().hex[:8].upper()}"), in the order
\* it draws them.
FreshOrderIds == << "RX-0000000A", "RX-0000000B", "RX-0000000C" >>

\* Order ids the clients send: a seeded NEW order, a seeded READY order and
\* the first id create_order hands out (unknown to the store until it does,
\* and in mock mode for ever).
ReqOrderIds == {"RX-1001", "RX-1004", "RX-0000000A"}

\* The actor_id values of AgenticStatusUpdateRequest the clients send.
ActorIds == {"pharmacist-1"}

\* Ids Firestore can give a new inventory document, and the ids clients send.
FreshItemIds == {"INV-A"}
ReqItemIds == {"INV-A"}

\* AddInventoryRequest bodies the clients send (schemas.py): drug_name,
\* quantity, threshold (default 10), expiry_date in days after the import.
AddInventoryBodies ==
    { [drug_name |-> "Amoxicillin", quantity |-> q, threshold |-> 10, expiry_date |-> 45]
        : q \in {0, 12} }

\* UpdateStockRequest.quantity values the clients send (ge=0).
UpdateQuantities == {0, 5}

\* medications lists of CreateOrderRequest the clients send.
MedicationLists == { <<"Amoxicillin", "Paracetamol">> }

\* Order ids the chat clients send: a seeded READY order, the id
\* _get_order_status hard-codes as completed, and the first created id.
ChatOrderIds == {"RX-1004", "RX-LOCKED", "RX-0000000A"}

\* SendMessageRequest.sender values the clients send.
Senders == {"PATIENT"}

\* What the test double of test_pharmacy_v2.py makes validate_stock_for_order
\* return: (False, [{"name": "Meds", "error": "None"}]).
PatchedMissing == << [name |-> "Meds", error |-> "None"] >>

\* ------------------------------------------------------------------- state
VARIABLES
    mock_mode,        \* firebase_service.mock_mode
    validate_patched, \* validate_stock_for_order is replaced by the test double
    clock,            \* the wall clock read by _now(), in minutes
    mock_orders_db,   \* service._MOCK_ORDERS_DB
    fs_orders,        \* Firestore collection pharmacy_orders: id -> document
    fs_inventory,     \* Firestore collection pharmacy_inventory: id -> document
    req,              \* the requests in flight, one record per slot
    issued,           \* number of requests issued so far
    decrement_calls,  \* order id -> number of calls of decrement_stock_for_order
    notifications,    \* order id -> number of calls of _notify_patient_ready
    notified,         \* the document the last _notify_patient_ready call was given
    fs_chats,         \* Firestore pharmacy_chats/{order_id}/messages: id -> messages
    timeline_log      \* the last line order_timeline.py logged

vars == << mock_mode, validate_patched, clock, mock_orders_db, fs_orders,
           fs_inventory, req, issued, decrement_calls, notifications,
           notified, fs_chats, timeline_log >>

store_vars == << mock_orders_db, fs_orders, notifications, notified >>

\* A slot with no request in it.
IdleReq ==
    [pc |-> "idle", endpoint |-> "", order_id |-> "", new_status |-> "",
     actor_id |-> "", old_status |-> "", tasks |-> << >>,
     code |-> 0, error |-> "", status |-> "", missing_items |-> << >>,
     task_error |-> "", is_locked |-> FALSE, messages |-> << >>,
     item_id |-> "", items |-> << >>, is_valid |-> FALSE, events |-> << >>]

\* An entry of the log order_timeline.py prints; NoLog before the first.
LogEntry(event, order_id, old_status, new_status, actor_id, count) ==
    [event |-> event, order_id |-> order_id, old_status |-> old_status,
     new_status |-> new_status, actor_id |-> actor_id, count |-> count]

NoLog == LogEntry("", "", "", "", "", 0)

\* The order_data argument of _notify_patient_ready (doc.to_dict() of the
\* document read before the update): the order's id and its status field.
NotifiedDoc(order_id, status) == [order_id |-> order_id, status |-> status]

NoNotification == NotifiedDoc("", "")

\* A background task of Starlette's BackgroundTasks: the function and its
\* arguments.
Task(fn, order_id, old_status, new_status, actor_id) ==
    [fn |-> fn, order_id |-> order_id, old_status |-> old_status,
     new_status |-> new_status, actor_id |-> actor_id]

\* service._now(), chat and inventory _now(): the wall clock.
_now == Datetime(clock)

\* The program after the import of its modules, in either mode, with an
\* empty Firestore database.
InitWith(patched) ==
    /\ mock_mode \in BOOLEAN
    /\ validate_patched = patched
    /\ clock = 0
    /\ mock_orders_db = _MOCK_ORDERS_DB_seed
    /\ fs_orders = << >>
    /\ fs_inventory = << >>
    /\ req = [r \in Reqs |-> IdleReq]
    /\ issued = 0
    /\ decrement_calls = [o \in ReqOrderIds |-> 0]
    /\ notifications = [o \in ReqOrderIds |-> 0]
    /\ notified = NoNotification
    /\ fs_chats = [o \in ChatOrderIds |-> << >>]
    /\ timeline_log = NoLog

\* The program as the source has it.
Init == InitWith(FALSE)

\* The program as test_pharmacy_v2.py runs it, validate_stock_for_order
\* replaced by a double that reports missing items.
InitTestDouble == InitWith(TRUE)

\* ------------------------------------------------------------ order store
\* Index of the first entry of _MOCK_ORDERS_DB with this id, 0 when none
\* (the for ... if order["id"] == order_id ... break loop).
MockIndex(order_id) ==
    LET hits == { i \in DOMAIN mock_orders_db : mock_orders_db[i].id = order_id }
    IN  IF hits = {} THEN 0 ELSE CHOOSE i \in hits : \A j \in hits : i <= j

\* The order document the store of the current mode holds for an id, and
\* whether it holds one.
OrderExists(order_id) ==
    IF mock_mode THEN MockIndex(order_id) # 0 ELSE order_id \in DOMAIN fs_orders

StoredOrder(order_id) ==
    IF mock_mode THEN mock_orders_db[MockIndex(order_id)] ELSE fs_orders[order_id]

NoDetail == [is_none |-> TRUE, id |-> "", status |-> ""]

\* service._mock_order_detail: a fixed document with status NEW for any id.
_mock_order_detail(order_id) ==
    [is_none |-> FALSE, id |-> order_id, status |-> "NEW"]

\* service.get_order_detail: the id and status of the returned dict (None
\* when the Firestore document does not exist).
get_order_detail(order_id) ==
    IF mock_mode THEN _mock_order_detail(order_id)
    ELSE IF order_id \notin DOMAIN fs_orders THEN NoDetail
    ELSE [is_none |-> FALSE, id |-> order_id, status |-> fs_orders[order_id].status]

\* The timestamp fields update_order_status stamps for a target status
\* (service.py lines 335-343 and 364-369): the document o with its status
\* set and accepted_at / ready_at / completed_at overwritten with ts.
Stamped(o, new_status, ts) ==
    [o EXCEPT !.status = new_status,
              !.accepted_at = IF new_status = "ACCEPTED" THEN ts ELSE @,
              !.ready_at = IF new_status = "READY" THEN ts ELSE @,
              !.completed_at =
                  IF new_status \in {"DELIVERED", "PICKED_UP"} THEN ts ELSE @]

\* service._mock_status_update: rewrites the first entry with this id, if
\* there is one; notifies nobody.
_mock_status_update(order_id, new_status) ==
    LET i == MockIndex(order_id)
    IN  /\ mock_orders_db' =
              IF i = 0 THEN mock_orders_db
              ELSE [mock_orders_db EXCEPT ![i] =
                      [Stamped(@, new_status, _ts_to_iso(_now))
                          EXCEPT !.color_code = STATUS_COLOR_MAP[new_status]]]
        /\ UNCHANGED << fs_orders, notifications, notified >>

\* service._notify_patient_ready: prints the notice for the document it is
\* given.
_notify_patient_ready(order_id, order_data) ==
    /\ notifications' = [notifications EXCEPT ![order_id] = @ + 1]
    /\ notified' = NotifiedDoc(order_id, order_data.status)

\* The call of _notify_patient_ready at service.py line 340 raises (it is
\* not inside a try): notify_ok is whether its print succeeds.
NotifyRaises(order_id, new_status, notify_ok) ==
    /\ ~mock_mode
    /\ order_id \in DOMAIN fs_orders
    /\ new_status = "READY"
    /\ ~notify_ok

\* The Firestore branch of service.update_order_status: nothing happens when
\* the document does not exist; otherwise _notify_patient_ready is called for
\* READY with the document as read, and then doc_ref.update writes the
\* payload.  An exception of the notification leaves the function before
\* doc_ref.update.
FirestoreStatusUpdate(order_id, new_status, notify_ok) ==
    IF order_id \notin DOMAIN fs_orders \/ NotifyRaises(order_id, new_status, notify_ok)
    THEN UNCHANGED store_vars
    ELSE /\ IF new_status = "READY"
            THEN _notify_patient_ready(order_id, fs_orders[order_id])
            ELSE UNCHANGED << notifications, notified >>
         /\ fs_orders' =
               [fs_orders EXCEPT ![order_id] = Stamped(@, new_status, _now)]
         /\ UNCHANGED mock_orders_db

\* service.update_order_status: its effect on the store ...
update_order_status(order_id, new_status, notify_ok) ==
    IF mock_mode
    THEN _mock_status_update(order_id, new_status)
    ELSE FirestoreStatusUpdate(order_id, new_status, notify_ok)

\* ... and what it returns: None, or the dict with the id and the status.
UpdateResult(order_id, new_status) ==
    IF ~mock_mode /\ order_id \notin DOMAIN fs_orders
    THEN NoDetail
    ELSE [is_none |-> FALSE, id |-> order_id, status |-> new_status]

\* ---------------------------------------------------------- stock services
\* app/services/inventory_agent.py, validate_stock_for_order: (True, []);
\* under the test double, what the double returns.
validate_stock_for_order(order_id) ==
    IF validate_patched
    THEN [is_valid |-> FALSE, missing |-> PatchedMissing]
    ELSE [is_valid |-> TRUE, missing |-> << >>]

\* app/services/inventory_agent.py, decrement_stock_for_order: the dict it
\* returns; it touches no inventory document.
decrement_stock_for_order(order_id) ==
    [decremented_count |-> 0, decremented |-> << >>, errors |-> << >>]

\* ------------------------------------------------------- request handling
\* A new request takes the lowest free slot.
FreeSlot(r) ==
    /\ req[r].pc = "idle"
    /\ \A q \in Reqs : q < r => req[q].pc # "idle"

\* In mock mode the store is a list of this process, whose event loop runs a
\* handler from its first line to its response without suspending (no
\* awaited coroutine waits for I/O), so no other handler or background task
\* runs in between.  The Firestore collections are shared by every server
\* process: there the handlers interleave at each access.
EventLoopFree(r) ==
    mock_mode => \A q \in Reqs \ {r} : req[q].pc \notin {"validate", "update"}

CanStart(r) ==
    /\ issued < MaxRequests
    /\ FreeSlot(r)
    /\ EventLoopFree(r)

\* The slot of a request that got its response.  A raised HTTPException
\* discards the background tasks registered so far (they are attached to the
\* response of a handler that returned).
Responded(q, code, error, status, missing, tasks) ==
    [q EXCEPT !.pc = "responded", !.code = code, !.error = error,
              !.status = status, !.missing_items = missing, !.tasks = tasks]

\* pharmacy/router.py, update_pharmacy_order_status (PATCH
\* /pharmacy/orders/{order_id}/status).
update_pharmacy_order_status(r, order_id, new_status) ==
    /\ CanStart(r)
    /\ \E notify_ok \in BOOLEAN :
          /\ update_order_status(order_id, new_status, notify_ok)
          /\ LET result == UpdateResult(order_id, new_status)
                 q == [IdleReq EXCEPT !.endpoint = "v1_status",
                                      !.order_id = order_id,
                                      !.new_status = new_status]
             IN  req' = [req EXCEPT ![r] =
                      IF NotifyRaises(order_id, new_status, notify_ok)
                      THEN Responded(q, 500, "InternalServerError", "", << >>, << >>)
                      ELSE IF result.is_none
                      THEN Responded(q, 404, "OrderNotFound", "", << >>, << >>)
                      ELSE Responded(q, 200, "", result.status, << >>, << >>)]
    /\ issued' = issued + 1
    /\ UNCHANGED << mock_mode, validate_patched, fs_chats, clock, fs_inventory,
                    decrement_calls, timeline_log >>

\* pharmacy_v2.py, agentic_status_update, lines 184-189: read the order.
agentic_get_detail(r, order_id, new_status, actor_id) ==
    /\ CanStart(r)
    /\ LET detail == get_order_detail(order_id)
           q == [IdleReq EXCEPT !.endpoint = "v2_status", !.order_id = order_id,
                                !.new_status = new_status, !.actor_id = actor_id]
       IN  req' = [req EXCEPT ![r] =
                IF detail.is_none
                THEN Responded(q, 404, "OrderNotFound", "", << >>, << >>)
                ELSE [q EXCEPT !.pc = "validate", !.old_status = detail.status]]
    /\ issued' = issued + 1
    /\ UNCHANGED << mock_mode, validate_patched, fs_chats, clock, store_vars,
                    fs_inventory, decrement_calls, timeline_log >>

\* A handler that validates stock for the ACCEPTED target only.
NeedsStockValidation_AcceptedOnly(new_status) == new_status = "ACCEPTED"

\* pharmacy_v2.py line 192: the targets whose transition validates stock.
NeedsStockValidation(new_status) == new_status \in {"ACCEPTED", "PREPARING"}

\* A server that registers the decrement for every validated target.
SchedulesDecrement_EveryGatedTarget(new_status) ==
    new_status \in {"ACCEPTED", "PREPARING"}

\* pharmacy_v2.py line 205: the target that registers the stock decrement.
SchedulesDecrement(new_status) == new_status = "ACCEPTED"

\* pharmacy_v2.py, agentic_status_update, lines 191-206: validate the stock,
\* fail with INSUFFICIENT_STOCK, or register the decrement task.
agentic_validate(r) ==
    /\ req[r].pc = "validate"
    /\ EventLoopFree(r)
    /\ LET q == req[r]
           v == validate_stock_for_order(q.order_id)
       IN  req' = [req EXCEPT ![r] =
                IF NeedsStockValidation(q.new_status) /\ ~v.is_valid
                THEN Responded(q, 400, "InsufficientStock", "", v.missing, << >>)
                ELSE IF NeedsStockValidation(q.new_status)
                        /\ SchedulesDecrement(q.new_status)
                THEN [q EXCEPT !.pc = "update",
                               !.tasks = Append(@,
                                   Task("_run_stock_decrement", q.order_id, "", "", ""))]
                ELSE [q EXCEPT !.pc = "update"]]
    /\ UNCHANGED << mock_mode, validate_patched, fs_chats, clock, store_vars,
                    fs_inventory, issued, decrement_calls, timeline_log >>

\* pharmacy_v2.py, agentic_status_update, lines 209-218: write the status,
\* register the timeline task, return the result.
agentic_update(r) ==
    /\ req[r].pc = "update"
    /\ EventLoopFree(r)
    /\ \E notify_ok \in BOOLEAN :
          /\ update_order_status(req[r].order_id, req[r].new_status, notify_ok)
          /\ LET q == req[r]
                 result == UpdateResult(q.order_id, q.new_status)
             IN  req' = [req EXCEPT ![r] =
                      IF NotifyRaises(q.order_id, q.new_status, notify_ok)
                      THEN Responded(q, 500, "InternalServerError", "", << >>, << >>)
                      ELSE IF result.is_none
                      THEN Responded(q, 404, "OrderNotFound", "", << >>, << >>)
                      ELSE Responded(q, 200, "", result.status, << >>,
                               Append(q.tasks,
                                   Task("log_status_change", q.order_id,
                                        q.old_status, q.new_status, q.actor_id)))]
    /\ UNCHANGED << mock_mode, validate_patched, fs_chats, clock, fs_inventory, issued,
                    decrement_calls, timeline_log >>

\* An endpoint that answers "all available" whatever the validation
\* returned.
validate_stock_endpoint_ReportsAllAvailable(r, order_id) ==
    /\ CanStart(r)
    /\ LET v == validate_stock_for_order(order_id)
           q == [IdleReq EXCEPT !.endpoint = "validate_stock",
                                !.order_id = order_id]
       IN  req' = [req EXCEPT ![r] =
               [Responded(q, 200, "", "", << >>, << >>)
                   EXCEPT !.is_valid = TRUE]]
    /\ issued' = issued + 1
    /\ UNCHANGED << mock_mode, validate_patched, fs_chats, clock, store_vars,
                    fs_inventory, decrement_calls, timeline_log >>

\* pharmacy_v2.py, validate_stock_endpoint (GET
\* /pharmacy/v2/orders/{order_id}/validate-stock): the result of
\* validate_stock_for_order, as is_valid and missing_items.
validate_stock_endpoint(r, order_id) ==
    /\ CanStart(r)
    /\ LET v == validate_stock_for_order(order_id)
           q == [IdleReq EXCEPT !.endpoint = "validate_stock",
                                !.order_id = order_id]
       IN  req' = [req EXCEPT ![r] =
               [Responded(q, 200, "", "", v.missing, << >>)
                   EXCEPT !.is_valid = v.is_valid]]
    /\ issued' = issued + 1
    /\ UNCHANGED << mock_mode, validate_patched, fs_chats, clock, store_vars,
                    fs_inventory, decrement_calls, timeline_log >>

\* pharmacy_v2.py, _run_stock_decrement: decrement, then log_stock_sync;
\* log_ok is whether the print of order_timeline.py succeeds.
_run_stock_decrement(order_id, log_ok) ==
    LET result == decrement_stock_for_order(order_id)
    IN  /\ decrement_calls' = [decrement_calls EXCEPT ![order_id] = @ + 1]
        /\ timeline_log' =
               IF log_ok
               THEN LogEntry("STOCK_SYNC", order_id, "", "", "",
                             result.decremented_count)
               ELSE timeline_log

\* app/services/order_timeline.py, log_status_change.
log_status_change(order_id, old_status, new_status, actor_id, log_ok) ==
    /\ timeline_log' =
           IF log_ok
           THEN LogEntry("STATUS_CHANGE", order_id, old_status, new_status,
                         actor_id, 0)
           ELSE timeline_log
    /\ UNCHANGED decrement_calls

\* A server in which a failed background task turns the request's answer
\* into an error.
RunBackgroundTask_FailureFailsRequest(r) ==
    /\ req[r].pc = "responded"
    /\ req[r].tasks # << >>
    /\ EventLoopFree(r)
    /\ \E log_ok \in BOOLEAN :
          LET t == Head(req[r].tasks)
          IN  /\ IF t.fn = "_run_stock_decrement"
                 THEN _run_stock_decrement(t.order_id, log_ok)
                 ELSE log_status_change(t.order_id, t.old_status, t.new_status,
                                        t.actor_id, log_ok)
              /\ req' = [req EXCEPT ![r].tasks = IF log_ok THEN Tail(@) ELSE << >>,
                                    ![r].task_error = IF log_ok THEN @ ELSE t.fn,
                                    ![r].code = IF log_ok THEN @ ELSE 500,
                                    ![r].status = IF log_ok THEN @ ELSE ""]
    /\ UNCHANGED << mock_mode, validate_patched, fs_chats, clock, store_vars,
                    fs_inventory, issued >>

\* Starlette runs the background tasks of a sent response one after the
\* other, in the order they were added (for task in self.tasks: await
\* task()): an exception of one task ends the loop, the tasks after it do
\* not run, and the response, already sent, stays as it was.
RunBackgroundTask(r) ==
    /\ req[r].pc = "responded"
    /\ req[r].tasks # << >>
    /\ EventLoopFree(r)
    /\ \E log_ok \in BOOLEAN :
          LET t == Head(req[r].tasks)
          IN  /\ IF t.fn = "_run_stock_decrement"
                 THEN _run_stock_decrement(t.order_id, log_ok)
                 ELSE log_status_change(t.order_id, t.old_status, t.new_status,
                                        t.actor_id, log_ok)
              /\ req' = [req EXCEPT ![r].tasks = IF log_ok THEN Tail(@) ELSE << >>,
                                    ![r].task_error = IF log_ok THEN @ ELSE t.fn]
    /\ UNCHANGED << mock_mode, validate_patched, fs_chats, clock, store_vars,
                    fs_inventory, issued >>

\* The request is over: response delivered, background tasks run.
RequestDone(r) ==
    /\ req[r].pc = "responded"
    /\ req[r].tasks = << >>
    /\ req' = [req EXCEPT ![r] = IdleReq]
    /\ UNCHANGED << mock_mode, validate_patched, fs_chats, clock, store_vars,
                    fs_inventory, issued, decrement_calls, timeline_log >>

\* The wall clock advances.
Tick ==
    /\ clock < MaxClock
    /\ clock' = clock + 1
    /\ UNCHANGED << mock_mode, validate_patched, fs_chats, store_vars, fs_inventory,
                    req, issued, decrement_calls, timeline_log >>

\* A function with one more key, and with one key removed (Firestore set
\* and delete of a document).
WithDoc(coll, id, doc) ==
    [x \in DOMAIN coll \cup {id} |-> IF x = id THEN doc ELSE coll[x]]

WithoutDoc(coll, id) == [x \in DOMAIN coll \ {id} |-> coll[x]]

\* pharmacy/service.py, create_order, reached from POST /pharmacy/orders
\* (router.create_pharmacy_order): a new id; the document is written to
\* Firestore only, mock mode just returns it.
create_order(r, medications) ==
    /\ CanStart(r)
    /\ Cardinality(DOMAIN fs_orders) < MaxCreated
    /\ LET order_id == FreshOrderIds[Cardinality(DOMAIN fs_orders) + 1]
           order_data ==
               [status |-> "NEW", medications |-> medications,
                created_at |-> _now, accepted_at |-> None,
                ready_at |-> None, completed_at |-> None]
       IN  /\ fs_orders' = IF mock_mode THEN fs_orders
                            ELSE WithDoc(fs_orders, order_id, order_data)
           /\ req' = [req EXCEPT ![r] =
                  Responded([IdleReq EXCEPT !.endpoint = "create_order",
                                            !.order_id = order_id],
                            201, "", "NEW", << >>, << >>)]
    /\ issued' = issued + 1
    /\ UNCHANGED << mock_mode, validate_patched, fs_chats, clock, mock_orders_db,
                    notifications, notified, fs_inventory, decrement_calls,
                    timeline_log >>

\* app/services/order_timeline.py, get_order_timeline: one fixed event, for
\* any order id.
get_order_timeline(order_id) ==
    << [id |-> "evt_1", event_type |-> "ORDER_CREATED",
        timestamp |-> "2024-01-01T10:00:00Z", actor_id |-> "SYSTEM"] >>

\* pharmacy_v2.py, get_timeline (GET /pharmacy/v2/orders/{order_id}/timeline).
get_timeline(r, order_id) ==
    /\ CanStart(r)
    /\ req' = [req EXCEPT ![r] =
           [Responded([IdleReq EXCEPT !.endpoint = "timeline",
                                      !.order_id = order_id],
                      200, "", "", << >>, << >>)
               EXCEPT !.events = get_order_timeline(order_id)]]
    /\ issued' = issued + 1
    /\ UNCHANGED << mock_mode, validate_patched, fs_chats, clock, mock_orders_db,
                    fs_orders, notifications, notified, fs_inventory,
                    decrement_calls, timeline_log >>

\* A server whose order read marks the order it shows as accepted.
get_pharmacy_order_AcceptsOnRead(r, order_id) ==
    /\ CanStart(r)
    /\ LET detail == get_order_detail(order_id)
           q == [IdleReq EXCEPT !.endpoint = "get_order", !.order_id = order_id]
       IN  /\ req' = [req EXCEPT ![r] =
                  IF detail.is_none
                  THEN Responded(q, 404, "OrderNotFound", "", << >>, << >>)
                  ELSE Responded(q, 200, "", detail.status, << >>, << >>)]
           /\ update_order_status(order_id, "ACCEPTED", TRUE)
    /\ issued' = issued + 1
    /\ UNCHANGED << mock_mode, validate_patched, fs_chats, clock, fs_inventory,
                    decrement_calls, timeline_log >>

\* pharmacy/router.py, get_pharmacy_order (GET /pharmacy/orders/{order_id}):
\* the detail of the order, 404 when get_order_detail returns None.
get_pharmacy_order(r, order_id) ==
    /\ CanStart(r)
    /\ LET detail == get_order_detail(order_id)
           q == [IdleReq EXCEPT !.endpoint = "get_order", !.order_id = order_id]
       IN  req' = [req EXCEPT ![r] =
               IF detail.is_none
               THEN Responded(q, 404, "OrderNotFound", "", << >>, << >>)
               ELSE Responded(q, 200, "", detail.status, << >>, << >>)]
    /\ issued' = issued + 1
    /\ UNCHANGED << mock_mode, validate_patched, fs_chats, clock, mock_orders_db,
                    fs_orders, notifications, notified, fs_inventory,
                    decrement_calls, timeline_log >>

\* ------------------------------------------------------------- inventory
\* pharmacy/inventory_service.py, LOW_STOCK_THRESHOLD and
\* EXPIRY_WINDOW_DAYS.
LOW_STOCK_THRESHOLD == 10
EXPIRY_WINDOW_DAYS == 30

\* timedelta.days of a difference of two datetimes, given in minutes: the
\* whole days, rounded down (timedelta(minutes=-1).days is -1).
timedelta_days(minutes) ==
    IF minutes >= 0 THEN minutes \div 1440
    ELSE 0 - ((1439 - minutes) \div 1440)

\* datetime.fromisoformat of the expiry_date string of a request body (given
\* as days after the import), and now + timedelta(days=n).
ParsedExpiry(days) == Datetime(days * 1440)
DaysFromNow(n) == Datetime(clock + n * 1440)

\* An enrichment whose expiry window includes its last day (<= in place of
\* <).
_enrich_item_WindowInclusive(d, doc_id) ==
    LET quantity == d.quantity
        threshold == d.threshold
        expiry == d.expiry_date
        is_low == quantity < threshold
        is_expiring ==
            IF expiry # None
            THEN timedelta_days(expiry.t - _now.t) <= EXPIRY_WINDOW_DAYS
            ELSE FALSE
    IN  [id |-> doc_id, drug_name |-> d.drug_name, quantity |-> quantity,
         expiry_date |-> _ts_to_iso(expiry), threshold |-> threshold,
         is_low_stock |-> is_low, is_expiring_soon |-> is_expiring]

\* pharmacy/inventory_service.py, _enrich_item: the stored fields and the
\* two flags, computed from the document and the wall clock.
_enrich_item(d, doc_id) ==
    LET quantity == d.quantity
        threshold == d.threshold
        expiry == d.expiry_date
        is_low == quantity < threshold
        is_expiring ==
            IF expiry # None
            THEN timedelta_days(expiry.t - _now.t) < EXPIRY_WINDOW_DAYS
            ELSE FALSE
    IN  [id |-> doc_id, drug_name |-> d.drug_name, quantity |-> quantity,
         expiry_date |-> _ts_to_iso(expiry), threshold |-> threshold,
         is_low_stock |-> is_low, is_expiring_soon |-> is_expiring]

\* One entry of the list of _mock_inventory, its flags written out in the
\* source.
MockItem(id, drug_name, quantity, days, threshold, is_low_stock, is_expiring_soon) ==
    [id |-> id, drug_name |-> drug_name, quantity |-> quantity,
     expiry_date |-> _ts_to_iso(DaysFromNow(days)), threshold |-> threshold,
     is_low_stock |-> is_low_stock, is_expiring_soon |-> is_expiring_soon]

\* pharmacy/inventory_service.py, the list seed of _mock_inventory as
\* written in the source.
_mock_inventory_seed ==
    << MockItem("INV-001", "Amoxicillin", 120, 180, 10, FALSE, FALSE),
       MockItem("INV-002", "Paracetamol", 8, 90, 10, TRUE, FALSE),
       MockItem("INV-003", "Pantoprazole", 45, 15, 10, FALSE, TRUE),
       MockItem("INV-004", "Cetirizine", 3, 10, 10, TRUE, TRUE),
       MockItem("INV-005", "Metformin", 200, 365, 20, FALSE, FALSE),
       MockItem("INV-006", "Ibuprofen", 50, 200, 15, FALSE, FALSE),
       MockItem("INV-007", "Omeprazole", 30, 120, 10, FALSE, FALSE),
       MockItem("INV-008", "Azithromycin", 10, 40, 5, FALSE, FALSE),
       MockItem("INV-009", "Amlodipine", 80, 300, 20, FALSE, FALSE),
       MockItem("INV-010", "Atorvastatin", 60, 250, 15, FALSE, FALSE),
       MockItem("INV-011", "Losartan", 100, 330, 20, FALSE, FALSE),
       MockItem("INV-012", "Gabapentin", 7, 25, 10, TRUE, TRUE),
       MockItem("INV-013", "Hydrochlorothiazide", 90, 280, 20, FALSE, FALSE),
       MockItem("INV-014", "Sertraline", 40, 150, 10, FALSE, FALSE),
       MockItem("INV-015", "Simvastatin", 55, 190, 10, FALSE, FALSE),
       MockItem("INV-016", "Levothyroxine", 25, 110, 10, FALSE, FALSE),
       MockItem("INV-017", "Metoprolol", 35, 140, 10, FALSE, FALSE),
       MockItem("INV-018", "Albuterol Inhaler", 12, 360, 5, FALSE, FALSE),
       MockItem("INV-019", "Escitalopram", 4, 45, 10, TRUE, FALSE),
       MockItem("INV-020", "Prednisone", 20, 80, 10, FALSE, FALSE),
       MockItem("INV-021", "Ciprofloxacn", 15, 70, 10, FALSE, FALSE),
       MockItem("INV-022", "Doxycycline", 6, 12, 8, TRUE, TRUE),
       MockItem("INV-023", "Insulin Glargine", 10, 60, 5, FALSE, FALSE),
       MockItem("INV-024", "Furosemide", 28, 100, 10, FALSE, FALSE),
       MockItem("INV-025", "Clopidogrel", 42, 310, 10, FALSE, FALSE),
       MockItem("INV-026", "Montelukast", 65, 220, 15, FALSE, FALSE),
       MockItem("INV-027", "Aspirin", 150, 400, 30, FALSE, FALSE),
       MockItem("INV-028", "Diazepam", 18, 95, 10, FALSE, FALSE),
       MockItem("INV-029", "Tramadol", 5, 18, 10, TRUE, TRUE),
       MockItem("INV-030", "Warfarin", 33, 160, 10, FALSE, FALSE) >>

\* list.sort(key=lambda x: x["expiry_date"]): ascending by the key, entries
\* with equal keys in the order they had (the sort is stable).
RECURSIVE SortedByExpiry(_)
SortedByExpiry(items) ==
    IF items = << >> THEN << >>
    ELSE LET first ==
                 CHOOSE i \in DOMAIN items :
                     \A j \in DOMAIN items :
                         \/ items[i].expiry_date.t < items[j].expiry_date.t
                         \/ /\ items[i].expiry_date.t = items[j].expiry_date.t
                            /\ i <= j
             rest == [k \in 1 .. Len(items) - 1 |->
                         IF k < first THEN items[k] ELSE items[k + 1]]
         IN  << items[first] >> \o SortedByExpiry(rest)

\* pharmacy/inventory_service.py, _mock_inventory.
_mock_inventory == SortedByExpiry(_mock_inventory_seed)

\* Document ids in the order Firestore compares them (as strings).
DocIdsAscending == << "INV-005", "INV-A", "INV-B" >>

DocIdRank(id) == CHOOSE k \in DOMAIN DocIdsAscending : DocIdsAscending[k] = id

\* Firestore, collection.order_by("expiry_date").stream(): the documents
\* ascending by the field, those with equal values ascending by document id.
RECURSIVE OrderByExpiryDate(_, _)
OrderByExpiryDate(coll, ids) ==
    IF ids = {} THEN << >>
    ELSE LET first ==
                 CHOOSE i \in ids :
                     \A j \in ids :
                         \/ coll[i].expiry_date.t < coll[j].expiry_date.t
                         \/ /\ coll[i].expiry_date.t = coll[j].expiry_date.t
                            /\ DocIdRank(i) <= DocIdRank(j)
         IN  << first >> \o OrderByExpiryDate(coll, ids \ {first})

\* pharmacy/inventory_service.py, list_inventory (GET /pharmacy/inventory):
\* the list of _mock_inventory, or the enriched documents of the collection
\* in the order of the query.
list_inventory(r) ==
    /\ CanStart(r)
    /\ LET order == OrderByExpiryDate(fs_inventory, DOMAIN fs_inventory)
           items ==
               IF mock_mode THEN _mock_inventory
               ELSE [k \in DOMAIN order |->
                        _enrich_item(fs_inventory[order[k]], order[k])]
       IN  req' = [req EXCEPT ![r] =
               [Responded([IdleReq EXCEPT !.endpoint = "list_inventory"],
                          200, "", "", << >>, << >>)
                   EXCEPT !.items = items]]
    /\ issued' = issued + 1
    /\ UNCHANGED << mock_mode, validate_patched, fs_chats, clock, store_vars,
                    fs_inventory, decrement_calls, timeline_log >>

\* pharmacy/inventory_service.py, _mock_add_item: the request's data with an
\* id and the two flags.
_mock_add_item(item_id, data) ==
    LET dt == ParsedExpiry(data.expiry_date)
    IN  [id |-> item_id, drug_name |-> data.drug_name,
         quantity |-> data.quantity,
         expiry_date |-> _ts_to_iso(dt), threshold |-> data.threshold,
         is_low_stock |-> data.quantity < data.threshold,
         is_expiring_soon |->
             timedelta_days(dt.t - _now.t) < EXPIRY_WINDOW_DAYS]

\* pharmacy/inventory_service.py, add_item (POST /pharmacy/inventory/add):
\* Firestore gets a new document with the request's data, the expiry date
\* parsed to a datetime, and the answer is that document enriched;
\* _mock_add_item stores nothing.
add_item(r, item_id, data) ==
    /\ CanStart(r)
    /\ item_id \notin DOMAIN fs_inventory
    /\ LET doc == [data EXCEPT !.expiry_date = ParsedExpiry(@)]
       IN  /\ fs_inventory' =
                  IF mock_mode THEN fs_inventory
                  ELSE WithDoc(fs_inventory, item_id, doc)
           /\ req' = [req EXCEPT ![r] =
                  [Responded([IdleReq EXCEPT !.endpoint = "add_item"],
                             200, "", "", << >>, << >>)
                      EXCEPT !.items =
                          IF mock_mode THEN << _mock_add_item(item_id, data) >>
                          ELSE << _enrich_item(doc, item_id) >>]]
    /\ issued' = issued + 1
    /\ UNCHANGED << mock_mode, validate_patched, fs_chats, clock, store_vars,
                    decrement_calls, timeline_log >>

\* pharmacy/inventory_service.py, _mock_update_stock: one fixed item with
\* the id and quantity of the request, whatever the id.
_mock_update_stock(item_id, new_quantity) ==
    [id |-> item_id, drug_name |-> "Paracetamol", quantity |-> new_quantity,
     expiry_date |-> _ts_to_iso(DaysFromNow(90)), threshold |-> 10,
     is_low_stock |-> new_quantity < 10, is_expiring_soon |-> FALSE]

\* pharmacy/inventory_service.py, update_stock with the 404 of
\* inventory_router.update_stock: _mock_update_stock answers for any id and
\* stores nothing; Firestore gets the new quantity if the document exists,
\* and the answer is the document read back and enriched.
update_stock(r, item_id, new_quantity) ==
    /\ CanStart(r)
    /\ LET found == mock_mode \/ item_id \in DOMAIN fs_inventory
           q == [IdleReq EXCEPT !.endpoint = "update_stock", !.item_id = item_id]
       IN  /\ fs_inventory' =
                  IF ~mock_mode /\ found
                  THEN [fs_inventory EXCEPT ![item_id].quantity = new_quantity]
                  ELSE fs_inventory
           /\ req' = [req EXCEPT ![r] =
                  IF ~found
                  THEN Responded(q, 404, "ItemNotFound", "", << >>, << >>)
                  ELSE [Responded(q, 200, "", "", << >>, << >>)
                           EXCEPT !.items =
                               IF mock_mode
                               THEN << _mock_update_stock(item_id, new_quantity) >>
                               ELSE << _enrich_item(
                                          [fs_inventory[item_id] EXCEPT
                                              !.quantity = new_quantity],
                                          item_id) >>]]
    /\ issued' = issued + 1
    /\ UNCHANGED << mock_mode, validate_patched, fs_chats, clock, store_vars,
                    decrement_calls, timeline_log >>

\* pharmacy/inventory_service.py, delete_item with the 404 of
\* inventory_router.delete_item: _mock_delete_item is True for any id.
delete_item(r, item_id) ==
    /\ CanStart(r)
    /\ LET found == mock_mode \/ item_id \in DOMAIN fs_inventory
           q == [IdleReq EXCEPT !.endpoint = "delete_item", !.item_id = item_id]
       IN  /\ fs_inventory' =
                  IF ~mock_mode /\ found
                  THEN WithoutDoc(fs_inventory, item_id)
                  ELSE fs_inventory
           /\ req' = [req EXCEPT ![r] =
                  IF found
                  THEN Responded(q, 200, "", "", << >>, << >>)
                  ELSE Responded(q, 404, "ItemNotFound", "", << >>, << >>)]
    /\ issued' = issued + 1
    /\ UNCHANGED << mock_mode, validate_patched, fs_chats, clock, store_vars,
                    decrement_calls, timeline_log >>

\* ------------------------------------------------------------------- chat
\* pharmacy/chat_service.py, _LOCKED_STATUSES and _is_chat_locked.
_LOCKED_STATUSES == {"DELIVERED", "PICKED_UP"}

_is_chat_locked(status) == status \in _LOCKED_STATUSES

\* The None of _get_order_status.
NoStatus == "None"

\* chat_service._get_order_status: in mock mode DELIVERED for "RX-LOCKED"
\* and PREPARING for every other id; otherwise the status field of the
\* Firestore document, None when there is no document.
_get_order_status(order_id) ==
    IF mock_mode
    THEN IF order_id = "RX-LOCKED" THEN "DELIVERED" ELSE "PREPARING"
    ELSE IF order_id \notin DOMAIN fs_orders THEN NoStatus
    ELSE fs_orders[order_id].status

\* chat_service._ts_to_iso: dt.isoformat() + "Z" if dt else None.
chat_ts_to_iso(dt) == IF dt = None THEN None ELSE IsoString(dt.t)

\* msg_data of chat_service.send_message.
MsgData(order_id, sender, created_at) ==
    [order_id |-> order_id, sender |-> sender, created_at |-> created_at]

\* chat_router.send_message with chat_service.send_message, lines 75-101:
\* read the order's status, refuse with 404 or 403, build the message; in
\* mock mode return it, stored nowhere.
send_message(r, order_id, sender) ==
    /\ CanStart(r)
    /\ LET status == _get_order_status(order_id)
           q == [IdleReq EXCEPT !.endpoint = "chat_send", !.order_id = order_id,
                                !.actor_id = sender]
           msg == MsgData(order_id, sender, chat_ts_to_iso(_now))
       IN  req' = [req EXCEPT ![r] =
                IF status = NoStatus
                THEN Responded(q, 404, "OrderNotFound", "", << >>, << >>)
                ELSE IF _is_chat_locked(status)
                THEN Responded(q, 403, "ChatLocked", "", << >>, << >>)
                ELSE IF mock_mode
                THEN [Responded(q, 200, "", "", << >>, << >>)
                         EXCEPT !.messages = << msg >>]
                ELSE [q EXCEPT !.pc = "chat_store", !.old_status = status,
                               !.messages = << msg >>]]
    /\ issued' = issued + 1
    /\ UNCHANGED << mock_mode, validate_patched, fs_chats, clock, store_vars,
                    fs_inventory, decrement_calls, timeline_log >>

\* chat_service.send_message, lines 103-109: write the message document,
\* created_at as a datetime, and return msg_data.
send_message_store(r) ==
    /\ req[r].pc = "chat_store"
    /\ LET q == req[r]
           msg == q.messages[1]
       IN  /\ fs_chats' = [fs_chats EXCEPT ![q.order_id] =
                  Append(@, [msg EXCEPT !.created_at = Datetime(@.t)])]
           /\ req' = [req EXCEPT ![r] =
                  [Responded(q, 200, "", "", << >>, << >>)
                      EXCEPT !.messages = << msg >>]]
    /\ UNCHANGED << mock_mode, validate_patched, clock, store_vars,
                    fs_inventory, issued, decrement_calls, timeline_log >>

\* chat_service._mock_chat_history: three fixed messages, 45, 40 and 38
\* minutes old.
_mock_chat_history(order_id) ==
    << MsgData(order_id, "PHARMACIST", chat_ts_to_iso(Datetime(clock - 45))),
       MsgData(order_id, "PATIENT", chat_ts_to_iso(Datetime(clock - 40))),
       MsgData(order_id, "PHARMACIST", chat_ts_to_iso(Datetime(clock - 38))) >>

\* Firestore's order_by("created_at") on the messages of an order: the
\* stored messages, earliest first.
RECURSIVE OrderByCreatedAt(_)
OrderByCreatedAt(msgs) ==
    IF msgs = << >> THEN << >>
    ELSE LET i == CHOOSE i \in DOMAIN msgs :
                      \A j \in DOMAIN msgs :
                          \/ msgs[i].created_at.t < msgs[j].created_at.t
                          \/ msgs[i].created_at.t = msgs[j].created_at.t /\ i <= j
             rest == [k \in 1 .. (Len(msgs) - 1) |->
                         IF k < i THEN msgs[k] ELSE msgs[k + 1]]
         IN  << msgs[i] >> \o OrderByCreatedAt(rest)

\* chat_router.get_chat_history with chat_service.get_chat_history: 404 when
\* _get_order_status is None, otherwise the messages and the lock flag.
get_chat_history(r, order_id) ==
    /\ CanStart(r)
    /\ LET status == _get_order_status(order_id)
           q == [IdleReq EXCEPT !.endpoint = "chat_history", !.order_id = order_id]
           messages ==
               IF mock_mode THEN _mock_chat_history(order_id)
               ELSE [k \in DOMAIN fs_chats[order_id] |->
                        [OrderByCreatedAt(fs_chats[order_id])[k]
                            EXCEPT !.created_at = chat_ts_to_iso(@)]]
       IN  req' = [req EXCEPT ![r] =
                IF status = NoStatus
                THEN Responded(q, 404, "OrderNotFound", "", << >>, << >>)
                ELSE [Responded(q, 200, "", "", << >>, << >>)
                         EXCEPT !.is_locked = _is_chat_locked(status),
                                !.messages = messages]]
    /\ issued' = issued + 1
    /\ UNCHANGED << mock_mode, validate_patched, fs_chats, clock, store_vars,
                    fs_inventory, decrement_calls, timeline_log >>

\* --------------------------------------------------------- specification
Next ==
    \/ \E r \in Reqs, o \in ReqOrderIds, s \in PrescriptionStatus :
           update_pharmacy_order_status(r, o, s)
    \/ \E r \in Reqs, o \in ReqOrderIds, s \in PrescriptionStatus, a \in ActorIds :
           agentic_get_detail(r, o, s, a)
    \/ \E r \in Reqs : agentic_validate(r)
    \/ \E r \in Reqs : agentic_update(r)
    \/ \E r \in Reqs : RunBackgroundTask(r)
    \/ \E r \in Reqs : RequestDone(r)
    \/ \E r \in Reqs, m \in MedicationLists : create_order(r, m)
    \/ \E r \in Reqs, o \in ReqOrderIds : get_pharmacy_order(r, o)
    \/ \E r \in Reqs, o \in ReqOrderIds : get_timeline(r, o)
    \/ \E r \in Reqs, i \in FreshItemIds, d \in AddInventoryBodies :
           add_item(r, i, d)
    \/ \E r \in Reqs, i \in ReqItemIds, n \in UpdateQuantities :
           update_stock(r, i, n)
    \/ \E r \in Reqs, i \in ReqItemIds : delete_item(r, i)
    \/ \E r \in Reqs : list_inventory(r)
    \/ \E r \in Reqs, o \in ReqOrderIds : validate_stock_endpoint(r, o)
    \/ \E r \in Reqs, o \in ChatOrderIds, s \in Senders : send_message(r, o, s)
    \/ \E r \in Reqs : send_message_store(r)
    \/ \E r \in Reqs, o \in ChatOrderIds : get_chat_history(r, o)
    \/ Tick

Spec == Init /\ [][Next]_vars

\* The v2 endpoint under the test double of validate_stock_for_order, with
\* the requests that create orders and add inventory items (the manual
\* corrections of the inventory are exercised by NextInventory and
\* NextStocked).
NextAgentic ==
    \/ \E r \in Reqs, o \in ReqOrderIds, s \in PrescriptionStatus, a \in ActorIds :
           agentic_get_detail(r, o, s, a)
    \/ \E r \in Reqs : agentic_validate(r)
    \/ \E r \in Reqs : agentic_update(r)
    \/ \E r \in Reqs : RunBackgroundTask(r)
    \/ \E r \in Reqs : RequestDone(r)
    \/ \E r \in Reqs, m \in MedicationLists : create_order(r, m)
    \/ \E r \in Reqs, i \in FreshItemIds, d \in AddInventoryBodies :
           add_item(r, i, d)
    \/ Tick

SpecTestDouble == InitTestDouble /\ [][NextAgentic]_vars

\* Targets of the pharmacist's normal flow: accept, mark ready, deliver.
FlowTargets == {"ACCEPTED", "READY", "DELIVERED"}

\* The v2 endpoint alone, asked for the targets of the normal flow, with the
\* requests that create orders, and the stock services as the source has
\* them.
NextTransitions ==
    \/ \E r \in Reqs, o \in ReqOrderIds, s \in FlowTargets, a \in ActorIds :
           agentic_get_detail(r, o, s, a)
    \/ \E r \in Reqs : agentic_validate(r)
    \/ \E r \in Reqs : agentic_update(r)
    \/ \E r \in Reqs : RunBackgroundTask(r)
    \/ \E r \in Reqs : RequestDone(r)
    \/ \E r \in Reqs, m \in MedicationLists : create_order(r, m)
    \/ Tick

SpecAgentic == Init /\ [][NextTransitions]_vars

\* A READY order that earlier requests (create_order, then the status
\* endpoint) left in the Firestore collection pharmacy_orders.
PersistedOrder ==
    [status |-> "READY", medications |-> << "Amoxicillin", "Paracetamol" >>,
     created_at |-> Datetime(0 - 30), accepted_at |-> Datetime(0 - 20),
     ready_at |-> Datetime(0 - 10), completed_at |-> None]

\* The service started on a Firestore database that holds that order.
InitPersisted ==
    /\ mock_mode = FALSE
    /\ validate_patched = FALSE
    /\ clock = 0
    /\ mock_orders_db = _MOCK_ORDERS_DB_seed
    /\ fs_orders = WithDoc(<< >>, FreshOrderIds[1], PersistedOrder)
    /\ fs_inventory = << >>
    /\ req = [r \in Reqs |-> IdleReq]
    /\ issued = 0
    /\ decrement_calls = [o \in ReqOrderIds |-> 0]
    /\ notifications = [o \in ReqOrderIds |-> 0]
    /\ notified = NoNotification
    /\ fs_chats = [o \in ChatOrderIds |-> << >>]
    /\ timeline_log = NoLog

\* The status endpoint and the chat endpoints.
NextChat ==
    \/ \E r \in Reqs, o \in ReqOrderIds, s \in PrescriptionStatus :
           update_pharmacy_order_status(r, o, s)
    \/ \E r \in Reqs, o \in ChatOrderIds, s \in Senders : send_message(r, o, s)
    \/ \E r \in Reqs : send_message_store(r)
    \/ \E r \in Reqs, o \in ChatOrderIds : get_chat_history(r, o)
    \/ \E r \in Reqs : RequestDone(r)
    \/ Tick

SpecPersisted == InitPersisted /\ [][NextChat]_vars

\* Ids Firestore can give a new inventory document; the ids the clients of
\* the inventory endpoints send: those, and an item of _mock_inventory.
LedgerFreshIds == {"INV-A", "INV-B"}
LedgerItemIds == {"INV-A", "INV-B", "INV-005"}

\* AddInventoryRequest bodies of the inventory clients: quantity is any int
\* (the schema gives it no lower bound), threshold an int, expiry_date a
\* date 10, 30 or 45 days after the import, or one already past.
LedgerBodies ==
    { [drug_name |-> "Amoxicillin", quantity |-> 12, threshold |-> 20, expiry_date |-> 30],
      [drug_name |-> "Amoxicillin", quantity |-> 0 - 1, threshold |-> 10, expiry_date |-> 10],
      [drug_name |-> "Paracetamol", quantity |-> 8, threshold |-> 10, expiry_date |-> 45],
      [drug_name |-> "Paracetamol", quantity |-> 12, threshold |-> 10, expiry_date |-> 0 - 1] }

\* UpdateStockRequest.quantity values of the inventory clients (ge=0).
LedgerQuantities == {0, 15}

\* The inventory endpoints alone.
NextInventory ==
    \/ \E r \in Reqs, i \in LedgerFreshIds, d \in LedgerBodies : add_item(r, i, d)
    \/ \E r \in Reqs, i \in LedgerItemIds, n \in LedgerQuantities :
           update_stock(r, i, n)
    \/ \E r \in Reqs, i \in LedgerItemIds : delete_item(r, i)
    \/ \E r \in Reqs : list_inventory(r)
    \/ \E r \in Reqs : RequestDone(r)
    \/ Tick

SpecInventory == Init /\ [][NextInventory]_vars

\* The program as the source has it or under the test double of
\* test_pharmacy_v2.py.
InitEitherValidation == \E patched \in BOOLEAN : InitWith(patched)

\* Targets whose transition is gated by the stock validation.
GatedTargets == {"ACCEPTED", "PREPARING"}

\* The validate-stock endpoint and the v2 status endpoint asked for the
\* gated targets, with the requests that fill the inventory.
NextValidate ==
    \/ \E r \in Reqs, o \in ReqOrderIds : validate_stock_endpoint(r, o)
    \/ \E r \in Reqs, o \in ReqOrderIds, s \in GatedTargets, a \in ActorIds :
           agentic_get_detail(r, o, s, a)
    \/ \E r \in Reqs : agentic_validate(r)
    \/ \E r \in Reqs : agentic_update(r)
    \/ \E r \in Reqs : RunBackgroundTask(r)
    \/ \E r \in Reqs : RequestDone(r)
    \/ \E r \in Reqs, i \in FreshItemIds, d \in AddInventoryBodies :
           add_item(r, i, d)
    \/ Tick

SpecValidate == InitEitherValidation /\ [][NextValidate]_vars

\* A NEW order that an earlier create_order left in pharmacy_orders, and the
\* two inventory items that earlier add_item requests left in
\* pharmacy_inventory for its medications: twelve units of one, the last
\* unit of the other.
StockedOrder ==
    [status |-> "NEW", medications |-> << "Amoxicillin", "Paracetamol" >>,
     created_at |-> Datetime(0 - 30), accepted_at |-> None,
     ready_at |-> None, completed_at |-> None]

StockedInventory ==
    WithDoc(WithDoc(<< >>, "INV-A",
                [drug_name |-> "Amoxicillin", quantity |-> 12, threshold |-> 10,
                 expiry_date |-> ParsedExpiry(45)]),
            "INV-B",
            [drug_name |-> "Paracetamol", quantity |-> 1, threshold |-> 10,
             expiry_date |-> ParsedExpiry(45)])

\* The service started on a Firestore database that holds them.
InitStocked ==
    /\ mock_mode = FALSE
    /\ validate_patched = FALSE
    /\ clock = 0
    /\ mock_orders_db = _MOCK_ORDERS_DB_seed
    /\ fs_orders = WithDoc(<< >>, FreshOrderIds[1], StockedOrder)
    /\ fs_inventory = StockedInventory
    /\ req = [r \in Reqs |-> IdleReq]
    /\ issued = 0
    /\ decrement_calls = [o \in ReqOrderIds |-> 0]
    /\ notifications = [o \in ReqOrderIds |-> 0]
    /\ notified = NoNotification
    /\ fs_chats = [o \in ChatOrderIds |-> << >>]
    /\ timeline_log = NoLog

\* The stock services at work: the validate-stock endpoint, the v2 status
\* endpoint asked for the gated targets, and the manual corrections of the
\* inventory.
NextStocked ==
    \/ \E r \in Reqs, o \in ReqOrderIds : validate_stock_endpoint(r, o)
    \/ \E r \in Reqs, o \in ReqOrderIds, s \in GatedTargets, a \in ActorIds :
           agentic_get_detail(r, o, s, a)
    \/ \E r \in Reqs : agentic_validate(r)
    \/ \E r \in Reqs : agentic_update(r)
    \/ \E r \in Reqs : RunBackgroundTask(r)
    \/ \E r \in Reqs : RequestDone(r)
    \/ \E r \in Reqs, i \in LedgerFreshIds, n \in LedgerQuantities :
           update_stock(r, i, n)
    \/ \E r \in Reqs, i \in LedgerFreshIds : delete_item(r, i)
    \/ Tick

SpecStocked == InitStocked /\ [][NextStocked]_vars

\* Medication lists a doctor's prescription may carry: in and out of
\* alphabetical order, and with a repeated line.
IntakeMedicationLists ==
    { << "Amoxicillin", "Paracetamol" >>, << "Paracetamol", "Amoxicillin" >>,
      << "Paracetamol", "Amoxicillin", "Paracetamol" >> }

\* Orders are created and read back, in either store mode.
NextIntake ==
    \/ \E r \in Reqs, m \in IntakeMedicationLists : create_order(r, m)
    \/ \E r \in Reqs, o \in ReqOrderIds : get_pharmacy_order(r, o)
    \/ \E r \in Reqs : RequestDone(r)
    \/ Tick

SpecIntake == Init /\ [][NextIntake]_vars

\* The service in mock mode, or started on the Firestore database of
\* InitStocked.
InitFrame == (Init /\ mock_mode) \/ InitStocked

\* The order the clients work on: a seeded one in mock mode, the stored one
\* in Firestore mode; the targets the pharmacist asks for.
FrameOrderIds == IF mock_mode THEN {"RX-1004"} ELSE {FreshOrderIds[1]}
FrameTargets == {"ACCEPTED", "READY"}

\* Every endpoint that works on an order or on the inventory, and the
\* background tasks.
NextFrame ==
    \/ \E r \in Reqs, o \in FrameOrderIds, s \in FrameTargets :
           update_pharmacy_order_status(r, o, s)
    \/ \E r \in Reqs, o \in FrameOrderIds, s \in FrameTargets, a \in ActorIds :
           agentic_get_detail(r, o, s, a)
    \/ \E r \in Reqs : agentic_validate(r)
    \/ \E r \in Reqs : agentic_update(r)
    \/ \E r \in Reqs : RunBackgroundTask(r)
    \/ \E r \in Reqs : RequestDone(r)
    \/ \E r \in Reqs, o \in FrameOrderIds : get_pharmacy_order(r, o)
    \/ \E r \in Reqs, o \in FrameOrderIds : get_timeline(r, o)
    \/ \E r \in Reqs, o \in FrameOrderIds : validate_stock_endpoint(r, o)
    \/ \E r \in Reqs, o \in FrameOrderIds, s \in Senders : send_message(r, o, s)
    \/ \E r \in Reqs : send_message_store(r)
    \/ \E r \in Reqs, o \in FrameOrderIds : get_chat_history(r, o)
    \/ \E r \in Reqs, i \in FreshItemIds, d \in AddInventoryBodies :
           add_item(r, i, d)
    \/ \E r \in Reqs, i \in ReqItemIds, n \in UpdateQuantities :
           update_stock(r, i, n)
    \/ \E r \in Reqs, i \in ReqItemIds : delete_item(r, i)
    \/ \E r \in Reqs : list_inventory(r)
    \/ Tick

SpecFrame == InitFrame /\ [][NextFrame]_vars

\* Both status endpoints asked for every target, the background tasks, and
\* the manual corrections of the inventory, with the clock standing still
\* (no stock service reads it).
NextTrigger ==
    \/ \E r \in Reqs, o \in FrameOrderIds, s \in PrescriptionStatus :
           update_pharmacy_order_status(r, o, s)
    \/ \E r \in Reqs, o \in FrameOrderIds, s \in PrescriptionStatus, a \in ActorIds :
           agentic_get_detail(r, o, s, a)
    \/ \E r \in Reqs : agentic_validate(r)
    \/ \E r \in Reqs : agentic_update(r)
    \/ \E r \in Reqs : RunBackgroundTask(r)
    \/ \E r \in Reqs : RequestDone(r)
    \/ \E r \in Reqs, i \in FreshItemIds, d \in AddInventoryBodies :
           add_item(r, i, d)
    \/ \E r \in Reqs, i \in ReqItemIds, n \in UpdateQuantities :
           update_stock(r, i, n)
    \/ \E r \in Reqs, i \in ReqItemIds : delete_item(r, i)

SpecTrigger == InitFrame /\ [][NextTrigger]_vars

\* ------------------------------------------------------------------ claims
\* Vocabulary of the claims.
TerminalStatuses == {"DELIVERED", "PICKED_UP", "REJECTED"}

\* Position of a status in NEW -> ACCEPTED -> PREPARING -> READY ->
\* {DELIVERED | PICKED_UP}; REJECTED ends the lifecycle too.
LifecycleRank(s) ==
    CASE s = "NEW" -> 0
      [] s = "ACCEPTED" -> 1
      [] s = "PREPARING" -> 2
      [] s = "READY" -> 3
      [] OTHER -> 4

\* The ids of the orders the store of the current mode holds.
StoredIds ==
    IF mock_mode THEN { mock_orders_db[i].id : i \in DOMAIN mock_orders_db }
    ELSE DOMAIN fs_orders

\* The lifecycle fields of a stored order.
Lifecycle(o) ==
    LET d == StoredOrder(o)
    IN  << d.status, d.created_at, d.accepted_at, d.ready_at, d.completed_at >>

\* Slot r is a transition request (v1 or v2) that gets its answer in this step.
Answered(r) ==
    /\ req[r].pc # "responded"
    /\ req'[r].pc = "responded"
    /\ req'[r].endpoint \in {"v1_status", "v2_status"}

\* Slot r is a transition request that enters the server in this step.
Arrives(r) ==
    /\ req[r].pc = "idle"
    /\ req'[r].pc # "idle"
    /\ req'[r].endpoint \in {"v1_status", "v2_status"}

\* C1: once an order's status is DELIVERED, PICKED_UP or REJECTED, every
\* later transition request for it fails with InvalidTransition and leaves
\* status, accepted_at, ready_at and completed_at as they were.
C1_TerminalOrderRejectsTransitions ==
    [][\A r \in Reqs, o \in ReqOrderIds :
              (Answered(r) /\ req'[r].order_id = o /\ OrderExists(o)
                 /\ StoredOrder(o).status \in TerminalStatuses)
              => /\ req'[r].error = "InvalidTransition"
                 /\ Lifecycle(o)' = Lifecycle(o)]_vars

\* C2: over any sequence or interleaving of transition requests, the stock
\* decrement is invoked at most once for every order id.
C2_DecrementAtMostOncePerOrder ==
    \A o \in ReqOrderIds : decrement_calls[o] <= 1

\* C3: when a transition targets ACCEPTED or PREPARING and stock validation
\* reports a missing item, the request fails with InsufficientStock carrying
\* the missing-item list, and nothing is mutated: the order store, the
\* inventory and the decrement count are unchanged and no task is scheduled.
C3_InsufficientStockAbortsTransition ==
    [][\A r \in Reqs :
          LET v == validate_stock_for_order(req[r].order_id)
          IN  (/\ req[r].pc = "validate"
               /\ req'[r].pc # "validate"
               /\ req[r].new_status \in {"ACCEPTED", "PREPARING"}
               /\ ~v.is_valid)
              => /\ req'[r].pc = "responded"
                 /\ req'[r].code = 400
                 /\ req'[r].error = "InsufficientStock"
                 /\ req'[r].missing_items = v.missing
                 /\ v.missing # << >>
                 /\ req'[r].tasks = << >>
                 /\ UNCHANGED << store_vars, fs_inventory, decrement_calls,
                                 timeline_log >>]_vars

\* C3 witness: a request for a stored NEW order was answered
\* InsufficientStock with a missing-item list, and the order is still NEW.
C3_Witness ==
    \E r \in Reqs :
        /\ req[r].pc = "responded"
        /\ req[r].error = "InsufficientStock"
        /\ req[r].new_status = "ACCEPTED"
        /\ req[r].missing_items # << >>
        /\ OrderExists(req[r].order_id)
        /\ StoredOrder(req[r].order_id).status = "NEW"
        /\ StoredOrder(req[r].order_id).accepted_at = None

\* C4: a transition request with target NEW, ACCEPTED or PREPARING for an
\* order whose status is later in the lifecycle than the target fails with
\* InvalidTransition and leaves the status unchanged.
C4_NoRegression ==
    [][\A r \in Reqs, o \in ReqOrderIds :
              (/\ Answered(r)
               /\ req'[r].order_id = o
               /\ OrderExists(o)
               /\ req'[r].new_status \in {"NEW", "ACCEPTED", "PREPARING"}
               /\ LifecycleRank(StoredOrder(o).status)
                      > LifecycleRank(req'[r].new_status))
              => /\ req'[r].error = "InvalidTransition"
                 /\ StoredOrder(o)'.status = StoredOrder(o).status]_vars

\* C5: of the requests transition(order, ACCEPTED) in flight at the same
\* time on one NEW order, at most one observes NEW and commits; no two of
\* them both observe NEW and both succeed.
C5_OneAcceptCommits ==
    \A r1, r2 \in Reqs :
        (/\ r1 # r2
         /\ req[r1].order_id = req[r2].order_id
         /\ \A r \in {r1, r2} :
               /\ req[r].endpoint = "v2_status"
               /\ req[r].new_status = "ACCEPTED"
               /\ req[r].old_status = "NEW")
        => ~(\A r \in {r1, r2} : req[r].pc = "responded" /\ req[r].code = 200)

\* C6: a transition request for an order id the store does not hold fails
\* with OrderNotFound at once, creates no order, schedules no task and
\* changes no stored state.
C6_UnknownOrderNotFound ==
    [][\A r \in Reqs :
          (Arrives(r) /\ ~OrderExists(req'[r].order_id))
          => /\ req'[r].pc = "responded"
             /\ req'[r].error = "OrderNotFound"
             /\ req'[r].tasks = << >>
             /\ UNCHANGED << store_vars, fs_inventory, decrement_calls,
                             timeline_log >>]_vars

\* C7: once created_at, accepted_at, ready_at or completed_at of an order is
\* set, no later step changes its value or resets it.
C7_TimestampsNeverOverwritten ==
    [][\A o \in StoredIds :
          LET before == StoredOrder(o)
              after == StoredOrder(o)'
          IN  /\ before.created_at # None => after.created_at = before.created_at
              /\ before.accepted_at # None => after.accepted_at = before.accepted_at
              /\ before.ready_at # None => after.ready_at = before.ready_at
              /\ before.completed_at # None
                    => after.completed_at = before.completed_at]_vars

\* C8: a successful transition persists the requested target as the order's
\* status, returns that status, and stamps accepted_at for ACCEPTED, ready_at
\* for READY, completed_at for DELIVERED or PICKED_UP and nothing else.
C8_SuccessfulTransitionPersistsAndStamps ==
    [][\A r \in Reqs, o \in ReqOrderIds, target \in PrescriptionStatus :
          LET now == IF mock_mode THEN _ts_to_iso(_now) ELSE _now
          IN  (/\ Answered(r)
               /\ req'[r].order_id = o
               /\ req'[r].new_status = target
               /\ req'[r].code = 200)
              => /\ req'[r].status = target
                 /\ OrderExists(o)'
                 /\ StoredOrder(o)'.status = target
                 /\ StoredOrder(o)'.accepted_at =
                       IF target = "ACCEPTED" THEN now ELSE StoredOrder(o).accepted_at
                 /\ StoredOrder(o)'.ready_at =
                       IF target = "READY" THEN now ELSE StoredOrder(o).ready_at
                 /\ StoredOrder(o)'.completed_at =
                       IF target \in {"DELIVERED", "PICKED_UP"} THEN now
                       ELSE StoredOrder(o).completed_at
                 /\ StoredOrder(o)'.created_at = StoredOrder(o).created_at]_vars

\* C9: for every stored order, completed_at is set if and only if the
\* status is DELIVERED or PICKED_UP.
C9_CompletedAtIffCompleted ==
    \A o \in StoredIds :
        (StoredOrder(o).completed_at # None)
            <=> (StoredOrder(o).status \in {"DELIVERED", "PICKED_UP"})

\* C10: for every stored order, ready_at is set if and only if the status
\* is READY, DELIVERED or PICKED_UP.
C10_ReadyAtIffReachedReady ==
    \A o \in StoredIds :
        (StoredOrder(o).ready_at # None)
            <=> (StoredOrder(o).status \in {"READY", "DELIVERED", "PICKED_UP"})

\* C11: for every stored order, accepted_at is set when the status is
\* ACCEPTED, PREPARING, READY, DELIVERED or PICKED_UP and unset when the
\* status is NEW; a step that takes an order from NEW to REJECTED leaves
\* accepted_at unset.
C11_AcceptedAtSetOnceLeftNew ==
    /\ [](\A o \in StoredIds :
             /\ StoredOrder(o).status
                    \in {"ACCEPTED", "PREPARING", "READY", "DELIVERED", "PICKED_UP"}
                  => StoredOrder(o).accepted_at # None
             /\ StoredOrder(o).status = "NEW" => StoredOrder(o).accepted_at = None)
    /\ [][\A o \in StoredIds :
              (StoredOrder(o).status = "NEW" /\ StoredOrder(o)'.status = "REJECTED")
              => StoredOrder(o)'.accepted_at = None]_vars

\* Two optional timestamps are in order when one of them is unset or the
\* first is not later than the second.
InOrder(a, b) == a = None \/ b = None \/ a.t <= b.t

\* C12: for every stored order, the seeded ones included, the lifecycle
\* timestamps that are set are non-decreasing:
\* created_at <= accepted_at <= ready_at <= completed_at.
C12_TimestampsNonDecreasing ==
    \A o \in StoredIds :
        LET d == StoredOrder(o)
        IN  /\ InOrder(d.created_at, d.accepted_at)
            /\ InOrder(d.created_at, d.ready_at)
            /\ InOrder(d.created_at, d.completed_at)
            /\ InOrder(d.accepted_at, d.ready_at)
            /\ InOrder(d.accepted_at, d.completed_at)
            /\ InOrder(d.ready_at, d.completed_at)

\* C13: a side effect of a transition is dispatched only after the status
\* is committed: the document a READY notification is dispatched for
\* already has the status READY in the store, and a stock decrement or a
\* timeline entry comes from a request whose update returned successfully.
C13_SideEffectsAfterCommit ==
    [][/\ \A o \in ReqOrderIds :
              notifications'[o] # notifications[o]
              => (notified'.order_id = o /\ notified'.status = "READY")
       /\ (decrement_calls' # decrement_calls \/ timeline_log' # timeline_log)
              => \E r \in Reqs :
                    /\ req[r].pc = "responded"
                    /\ req[r].code = 200
                    /\ req[r].tasks # req'[r].tasks]_vars

\* C14: a transition request that changes a stored order's status leaves
\* exactly one status-change record to be written, carrying the order's old
\* status, its new status and the request's actor id (timeline entries are
\* written from these records only); a failed request leaves none.
C14_EveryTransitionRecorded ==
    [][\A r \in Reqs, o \in ReqOrderIds :
          (Answered(r) /\ req'[r].order_id = o /\ OrderExists(o))
          => LET logs == { i \in DOMAIN req'[r].tasks :
                              req'[r].tasks[i].fn = "log_status_change" }
             IN  IF StoredOrder(o)'.status # StoredOrder(o).status
                 THEN /\ Cardinality(logs) = 1
                      /\ \A i \in logs :
                            req'[r].tasks[i] =
                                Task("log_status_change", o, StoredOrder(o).status,
                                     StoredOrder(o)'.status, req'[r].actor_id)
                 ELSE req'[r].code # 200 => logs = {}]_vars

\* C15: in mock mode and in Firestore mode, a successful transition of a
\* stored order into READY dispatches one patient notification, a
\* successful transition into another status dispatches none, and nothing
\* else dispatches one.
C15_NotificationOnReadyOnly ==
    [][/\ \A r \in Reqs, o \in ReqOrderIds :
             (/\ Answered(r)
              /\ req'[r].order_id = o
              /\ req'[r].code = 200
              /\ OrderExists(o))
             => notifications'[o] = notifications[o]
                    + (IF req'[r].new_status = "READY" THEN 1 ELSE 0)
       /\ \A o \in ReqOrderIds :
             notifications'[o] # notifications[o]
             => \E r \in Reqs :
                   /\ Answered(r)
                   /\ req'[r].order_id = o
                   /\ req'[r].new_status = "READY"
                   /\ req'[r].code = 200]_vars

\* C16: a transition of a stored order into READY is answered with the
\* status READY and leaves status READY and ready_at in the store, whether
\* the notification it dispatches succeeds or fails.
C16_NotificationFailureSwallowed ==
    [][\A r \in Reqs, o \in ReqOrderIds :
          (/\ Answered(r)
           /\ req[r].pc \in {"idle", "update"}
           /\ req'[r].order_id = o
           /\ req'[r].new_status = "READY"
           /\ OrderExists(o))
          => /\ req'[r].code = 200
             /\ req'[r].status = "READY"
             /\ StoredOrder(o)'.status = "READY"
             /\ StoredOrder(o)'.ready_at # None]_vars

\* C17: when logging the status change fails, the order store stays as the
\* transition wrote it and the answer the caller got is still the
\* successful new status.
C17_LogFailureKeepsTransition ==
    [][\A r \in Reqs :
          (/\ req[r].task_error # "log_status_change"
           /\ req'[r].task_error = "log_status_change")
          => /\ UNCHANGED << mock_orders_db, fs_orders >>
             /\ req'[r].pc = "responded"
             /\ req'[r].code = 200
             /\ req'[r].error = ""
             /\ req'[r].status = req'[r].new_status]_vars

\* C17 witness: the logging of a READY transition on a stored order failed;
\* the order is READY with ready_at set, the answer is 200 READY and no
\* timeline line was written.
C17_Witness ==
    \E r \in Reqs :
        /\ req[r].task_error = "log_status_change"
        /\ req[r].new_status = "READY"
        /\ req[r].code = 200
        /\ req[r].status = "READY"
        /\ OrderExists(req[r].order_id)
        /\ StoredOrder(req[r].order_id).status = "READY"
        /\ StoredOrder(req[r].order_id).ready_at # None
        /\ timeline_log = NoLog

\* Slot r is a request of the chat endpoint ep for order o that enters the
\* server in this step.
ChatArrives(r, ep, o) ==
    /\ req[r].pc = "idle"
    /\ req'[r].pc # "idle"
    /\ req'[r].endpoint = ep
    /\ req'[r].order_id = o

\* C18: send_message for an order the store does not hold fails with
\* OrderNotFound, for a stored order whose status is DELIVERED or PICKED_UP
\* with ChatLocked; in both cases no message is created or stored.
C18_SendRefusedWhenLockedOrUnknown ==
    [][\A r \in Reqs, o \in ChatOrderIds :
          ChatArrives(r, "chat_send", o)
          => /\ ~OrderExists(o)
                  => /\ req'[r].pc = "responded"
                     /\ req'[r].error = "OrderNotFound"
                     /\ req'[r].messages = << >>
                     /\ UNCHANGED fs_chats
             /\ (OrderExists(o)
                    /\ StoredOrder(o).status \in {"DELIVERED", "PICKED_UP"})
                  => /\ req'[r].pc = "responded"
                     /\ req'[r].error = "ChatLocked"
                     /\ req'[r].messages = << >>
                     /\ UNCHANGED fs_chats]_vars

\* C19: while the stored status of an order is DELIVERED or PICKED_UP, no
\* step adds a message to its conversation, whatever requests are in
\* flight.
C19_NoMessageAfterCompletion ==
    [][\A o \in ChatOrderIds :
          (OrderExists(o) /\ StoredOrder(o).status \in {"DELIVERED", "PICKED_UP"})
          => fs_chats'[o] = fs_chats[o]]_vars

\* C20: history retrieval for a stored order succeeds and reports is_locked
\* true exactly when the order's status is DELIVERED or PICKED_UP.
C20_HistoryReportsLock ==
    [][\A r \in Reqs, o \in ChatOrderIds :
          (ChatArrives(r, "chat_history", o) /\ OrderExists(o))
          => /\ req'[r].pc = "responded"
             /\ req'[r].code = 200
             /\ req'[r].is_locked
                    = (StoredOrder(o).status \in {"DELIVERED", "PICKED_UP"})]_vars

\* ------------------------------------------------------- inventory claims
\* The ledger the inventory endpoints serve: the documents of the Firestore
\* collection, or in mock mode the items of _mock_inventory; its ids, and
\* the item it holds under an id.
LedgerIds ==
    IF mock_mode
    THEN {_mock_inventory_seed[k].id : k \in DOMAIN _mock_inventory_seed}
    ELSE DOMAIN fs_inventory

LedgerItem(id) ==
    IF mock_mode
    THEN _mock_inventory_seed[CHOOSE k \in DOMAIN _mock_inventory_seed :
                                  _mock_inventory_seed[k].id = id]
    ELSE [fs_inventory[id] EXCEPT !.expiry_date = _ts_to_iso(@)]

\* Request r gets the answer of an inventory endpoint in this step.
InventoryArrives(r, endpoints) ==
    /\ req[r].pc # "responded"
    /\ req'[r].pc = "responded"
    /\ req'[r].endpoint \in endpoints

\* C21: every item that list, add or update returns carries the quantity
\* and threshold the ledger holds for it, and its is_low_stock flag equals
\* (that quantity < that threshold).
C21_LowStockFlagNeverStale ==
    [][\A r \in Reqs, id \in LedgerItemIds :
          /\ InventoryArrives(r, {"list_inventory", "add_item", "update_stock"})
          /\ id \in LedgerIds'
          => \A k \in DOMAIN req'[r].items :
                 req'[r].items[k].id = id =>
                     /\ req'[r].items[k].quantity = LedgerItem(id)'.quantity
                     /\ req'[r].items[k].threshold = LedgerItem(id)'.threshold
                     /\ req'[r].items[k].is_low_stock =
                            (LedgerItem(id)'.quantity < LedgerItem(id)'.threshold)]_vars

\* The whole number of days in a span of minutes: the integer d with
\* d days <= span < d + 1 days.
WholeDays(minutes) ==
    CHOOSE d \in (0 - 3) .. 500 :
        d * 1440 <= minutes /\ minutes < (d + 1) * 1440

\* C22: every item an inventory endpoint returns with an expiry date has
\* is_expiring_soon equal to (whole days from the time of the call to the
\* expiry date < 30): true 10 days out and when expired, false 45 days out
\* and exactly 30 days out.
C22_ExpiringSoonIsWholeDaysUnder30 ==
    [][\A r \in Reqs :
          InventoryArrives(r, {"list_inventory", "add_item", "update_stock"}) =>
              \A k \in DOMAIN req'[r].items :
                  req'[r].items[k].expiry_date # None =>
                      req'[r].items[k].is_expiring_soon =
                          (WholeDays(req'[r].items[k].expiry_date.t - clock') < 30)]_vars

\* An item that expires exactly 30 days after the import is answered as not
\* expiring soon at the import and, listed a minute later from the stored
\* document, as expiring soon.
C22_Witness ==
    \E r, q \in Reqs :
        /\ ~mock_mode
        /\ req[r].pc = "responded" /\ req[r].endpoint = "add_item"
        /\ req[q].pc = "responded" /\ req[q].endpoint = "list_inventory"
        /\ \E k \in DOMAIN req[r].items :
               /\ req[r].items[k].expiry_date.t = 30 * 1440
               /\ ~req[r].items[k].is_expiring_soon
        /\ \E k \in DOMAIN req[q].items :
               /\ req[q].items[k].expiry_date.t = 30 * 1440
               /\ req[q].items[k].is_expiring_soon

\* The expiry dates of a list ascend, and items with the same expiry date
\* are in ascending order of their ids.
AscendingExpiryThenId(items) ==
    \A i, j \in DOMAIN items :
        i < j =>
            \/ items[i].expiry_date.t < items[j].expiry_date.t
            \/ /\ items[i].expiry_date.t = items[j].expiry_date.t
               /\ DocIdRank(items[i].id) < DocIdRank(items[j].id)

\* C23: list_inventory returns the current items, each once, sorted by
\* ascending expiry date and, among equal expiry dates, by ascending id:
\* every item of the ledger is in the list, and an item whose deletion was
\* answered with success (and whose id is never given to a new item) is not.
C23_ListSortedAndComplete ==
    [][\A r \in Reqs :
          InventoryArrives(r, {"list_inventory"}) =>
              /\ AscendingExpiryThenId(req'[r].items)
              /\ {req'[r].items[k].id : k \in DOMAIN req'[r].items} = LedgerIds'
              /\ \A q \in Reqs \ {r}, id \in LedgerItemIds \ LedgerFreshIds :
                     /\ req[q].pc = "responded"
                     /\ req[q].endpoint = "delete_item"
                     /\ req[q].code = 200
                     /\ req[q].item_id = id
                     => \A k \in DOMAIN req'[r].items : req'[r].items[k].id # id]_vars

\* Every item of the ledger but this one is as it was.
OtherItemsUnchanged(id) ==
    /\ LedgerIds' \ {id} = LedgerIds \ {id}
    /\ \A other \in LedgerIds \ {id} : LedgerItem(other)' = LedgerItem(other)

\* C24: update-quantity and delete of an id the ledger does not hold fail
\* with ItemNotFound and leave the ledger as it was; of an id it holds,
\* update sets that item's quantity and nothing else, and delete removes
\* that item and nothing else (so that a second delete finds no item).
C24_UnknownItemNotFound ==
    [][\A r \in Reqs, id \in LedgerItemIds :
          /\ \A n \in LedgerQuantities :
                 update_stock(r, id, n) =>
                     IF id \in LedgerIds
                     THEN /\ req'[r].code = 200
                          /\ id \in LedgerIds'
                          /\ LedgerItem(id)' = [LedgerItem(id) EXCEPT !.quantity = n]
                          /\ OtherItemsUnchanged(id)
                     ELSE /\ req'[r].error = "ItemNotFound"
                          /\ LedgerIds' = LedgerIds
                          /\ OtherItemsUnchanged(id)
          /\ delete_item(r, id) =>
                 IF id \in LedgerIds
                 THEN /\ req'[r].code = 200
                      /\ id \notin LedgerIds'
                      /\ OtherItemsUnchanged(id)
                 ELSE /\ req'[r].error = "ItemNotFound"
                      /\ LedgerIds' = LedgerIds
                      /\ OtherItemsUnchanged(id)]_vars

\* C25: in every reachable state the quantity of every item of the ledger
\* is a non-negative integer.
C25_QuantityNeverNegative ==
    \A id \in LedgerIds :
        /\ LedgerItem(id).quantity \in Int
        /\ LedgerItem(id).quantity >= 0

\* ------------------------------------------------- stock service claims
\* C26: a stock validation, run by the validate-stock endpoint or as the
\* gate of a transition, changes no inventory document and no order, and
\* the endpoint answers with is_valid and missing_items as
\* validate_stock_for_order returned them.
C26_ValidationIsPureRead ==
    [][\A r \in Reqs :
          /\ \A o \in ReqOrderIds :
                 /\ req[r].pc = "idle"
                 /\ req'[r].endpoint = "validate_stock"
                 /\ req'[r].order_id = o
                 => /\ UNCHANGED << fs_inventory, mock_orders_db, fs_orders >>
                    /\ req'[r].pc = "responded"
                    /\ req'[r].is_valid = validate_stock_for_order(o).is_valid
                    /\ req'[r].missing_items = validate_stock_for_order(o).missing
          /\ (req[r].pc = "validate" /\ req'[r].pc # "validate")
                 => UNCHANGED << fs_inventory, mock_orders_db, fs_orders >>]_vars

\* The endpoint has answered "not valid" with the missing items the
\* validation returned, while the inventory holds an item.
C26_Witness ==
    /\ DOMAIN fs_inventory # {}
    /\ \E r \in Reqs :
           /\ req[r].pc = "responded"
           /\ req[r].endpoint = "validate_stock"
           /\ ~req[r].is_valid
           /\ req[r].missing_items = PatchedMissing

\* The medication line items of a stored order, by drug name.
Medications(order_id) ==
    IF mock_mode THEN << "Amoxicillin", "Paracetamol", "Pantoprazole" >>
    ELSE fs_orders[order_id].medications

\* The need of a line item: one unit (no order carries a quantity field).
Need == 1

\* The ledger cannot supply a drug: no item of that name holds the need.
Short(drug_name) ==
    \A id \in LedgerIds :
        LedgerItem(id).drug_name = drug_name => LedgerItem(id).quantity < Need

ShortItems(order_id) ==
    {k \in DOMAIN Medications(order_id) : Short(Medications(order_id)[k])}

\* C27: the validation of a stored order reports as missing exactly the
\* line items the ledger cannot supply (no item of that drug name, or less
\* than the need of 1), and answers "all available" if and only if it
\* reports none: so at the endpoint, and so at the gate of a transition.
C27_MissingExactlyWhenShort ==
    [][\A r \in Reqs, o \in ReqOrderIds :
          /\ OrderExists(o)
          => /\ /\ req[r].pc = "idle"
                /\ req'[r].endpoint = "validate_stock"
                /\ req'[r].order_id = o
                => /\ req'[r].is_valid = (ShortItems(o) = {})
                   /\ Len(req'[r].missing_items) = Cardinality(ShortItems(o))
             /\ /\ req[r].pc = "validate"
                /\ req[r].order_id = o
                /\ req[r].new_status \in {"ACCEPTED", "PREPARING"}
                /\ req'[r].pc = "update"
                => ShortItems(o) = {}]_vars

\* Request r runs the stock decrement of this order in this step.
DecrementRuns(r, order_id) ==
    /\ req[r].pc = "responded"
    /\ req[r].tasks # << >>
    /\ Head(req[r].tasks).fn = "_run_stock_decrement"
    /\ Head(req[r].tasks).order_id = order_id
    /\ decrement_calls'[order_id] = decrement_calls[order_id] + 1

\* The items of the ledger that supply a line item of the order.
SupplyingItems(order_id) ==
    {id \in LedgerIds :
        /\ LedgerItem(id).quantity >= Need
        /\ \E k \in DOMAIN Medications(order_id) :
               Medications(order_id)[k] = LedgerItem(id).drug_name}

\* C28: the decrement that follows a committed transition of a NEW order
\* into ACCEPTED leaves the ledger quantity of every medication of the
\* order lower by its need (1 per line item) than it was.
C28_DecrementLowersStock ==
    [][\A r \in Reqs, o \in ReqOrderIds :
          /\ DecrementRuns(r, o)
          /\ OrderExists(o)
          /\ req[r].old_status = "NEW"
          /\ req[r].status = "ACCEPTED"
          => \A id \in SupplyingItems(o) :
                 /\ id \in LedgerIds'
                 /\ LedgerItem(id)'.quantity = LedgerItem(id).quantity - Need]_vars

\* C29: a decrement that finds one line item of the order depleted while
\* another can be supplied returns a partial result (the supplied items
\* counted, one error per depleted item), lowers the items it could supply
\* and does not restore them, and leaves the order's status as committed.
C29_PartialDecrementReported ==
    [][\A r \in Reqs, o \in ReqOrderIds :
          /\ DecrementRuns(r, o)
          /\ OrderExists(o)
          /\ ShortItems(o) # {}
          /\ SupplyingItems(o) # {}
          => /\ Len(decrement_stock_for_order(o).errors) = Cardinality(ShortItems(o))
             /\ decrement_stock_for_order(o).decremented_count
                    = Cardinality(DOMAIN Medications(o) \ ShortItems(o))
             /\ \A id \in SupplyingItems(o) :
                    /\ id \in LedgerIds'
                    /\ LedgerItem(id)'.quantity < LedgerItem(id).quantity
             /\ StoredOrder(o)'.status = StoredOrder(o).status]_vars

\* Request r sets the quantity of this item by hand in this step.
ManualUpdate(r, id) ==
    /\ req[r].pc = "idle"
    /\ req'[r].endpoint = "update_stock"
    /\ req'[r].item_id = id
    /\ req'[r].code = 200

\* The number of decrements of this item applied in this step: one for
\* each order whose decrement runs, has the item's drug on it and finds the
\* need in stock.
AppliedDecrements(id) ==
    Cardinality({o \in ReqOrderIds :
                    /\ OrderExists(o)
                    /\ id \in SupplyingItems(o)
                    /\ \E r \in Reqs : DecrementRuns(r, o)})

\* C30: no update of the ledger is lost: in every step each item's
\* quantity changes by exactly the decrements applied to it in that step
\* (a manual update apart, which sets it), so that the final quantity is
\* the initial one minus the sum of the applied decrements.
C30_NoLostUpdates ==
    [][\A id \in LedgerFreshIds :
          /\ id \in LedgerIds
          /\ id \in LedgerIds'
          /\ \A r \in Reqs : ~ManualUpdate(r, id)
          => LedgerItem(id)'.quantity
                 = LedgerItem(id).quantity - Need * AppliedDecrements(id)]_vars

\* ------------------------------------------------- lifecycle frame claims
\* C31: createOrder returns and stores a new order with a fresh id, status
\* NEW, created_at stamped, accepted_at, ready_at and completed_at unset and
\* the medication lines in the order supplied; once it has returned, the
\* order is found in the store under its id.
C31_CreateOrderStoresTheOrder ==
    [][\A r \in Reqs, m \in IntakeMedicationLists,
          id \in { FreshOrderIds[i] : i \in DOMAIN FreshOrderIds } :
          (create_order(r, m) /\ id = req'[r].order_id) =>
              /\ req'[r].code = 201
              /\ req'[r].status = "NEW"
              /\ id \notin StoredIds
              /\ id \in StoredIds'
              /\ Lifecycle(id)' = << "NEW", Datetime(clock), None, None, None >>
              /\ StoredOrder(id)'.medications = m]_vars

\* Slot r writes the status of order o in this step: the v1 endpoint, or the
\* update_order_status call of the v2 endpoint.
StatusWrite(r, o) ==
    /\ \/ req[r].pc = "idle" /\ req'[r].endpoint = "v1_status"
       \/ req[r].pc = "update" /\ req'[r].endpoint = "v2_status"
    /\ req'[r].pc = "responded"
    /\ req'[r].order_id = o

\* C32: only the transition operation changes an order's status and
\* timestamps: every step that is not the status write of a transition
\* request for that order (chat send and history, stock validate and
\* decrement, inventory add, update, delete and list, timeline append and
\* read, order reads) leaves both order stores as they were, or at least the
\* status and the timestamps of every stored order, and removes no order.
C32_OnlyTransitionsMutateStatus ==
    [][\/ UNCHANGED << mock_orders_db, fs_orders >>
       \/ \A o \in StoredIds :
             \/ \E r \in Reqs : StatusWrite(r, o)
             \/ o \in StoredIds' /\ Lifecycle(o)' = Lifecycle(o)]_vars

\* An order read, a timeline read, a chat message, a stock validation or an
\* inventory addition was answered after a transition had accepted an order
\* and its decrement task had run.
C32_Witness ==
    \E o \in StoredIds \cap ReqOrderIds :
        /\ StoredOrder(o).status = "ACCEPTED"
        /\ StoredOrder(o).accepted_at # None
        /\ decrement_calls[o] > 0
        /\ \E r \in Reqs :
              /\ req[r].pc = "responded"
              /\ req[r].endpoint \in {"get_order", "timeline", "chat_send",
                                      "add_item", "validate_stock"}

\* C33: REJECTED is reachable only from NEW: a transition request with
\* target REJECTED for an order whose status is ACCEPTED, PREPARING or READY
\* fails with InvalidTransition and leaves the status unchanged.
C33_RejectOnlyFromNew ==
    [][\A r \in Reqs, o \in ReqOrderIds :
          (/\ Answered(r)
           /\ req'[r].order_id = o
           /\ req'[r].new_status = "REJECTED"
           /\ OrderExists(o)
           /\ StoredOrder(o).status \in {"ACCEPTED", "PREPARING", "READY"})
          => /\ req'[r].error = "InvalidTransition"
             /\ StoredOrder(o)'.status = StoredOrder(o).status]_vars

\* C34: stock validation gates exactly the transitions to ACCEPTED and
\* PREPARING: a request that writes one of these targets has been through the
\* validation before the write; a request for READY, DELIVERED, PICKED_UP or
\* REJECTED passes the gate whatever the validation would say and is never
\* answered InsufficientStock.
C34_ValidationGatesAcceptedAndPreparing ==
    [][\A r \in Reqs :
          /\ (/\ Answered(r)
              /\ req'[r].code = 200
              /\ req'[r].new_status \in GatedTargets)
             => req[r].pc = "update"
          /\ (Answered(r) /\ req'[r].new_status \notin GatedTargets)
             => req'[r].error # "InsufficientStock"
          /\ (/\ req[r].pc = "validate"
              /\ req'[r].pc # "validate"
              /\ req[r].new_status \notin GatedTargets)
             => req'[r].pc = "update"]_vars

\* A request carries the stock decrement among its background tasks.
CarriesDecrement(r) ==
    \E i \in DOMAIN req[r].tasks : req[r].tasks[i].fn = "_run_stock_decrement"

TimelineRead(r, o) ==
    /\ req[r].pc = "idle"
    /\ req'[r].pc = "responded"
    /\ req'[r].endpoint = "timeline"
    /\ req'[r].order_id = o

\* C36: the timeline is append-only and list(order_id) returns what was
\* recorded: a read never fails, it returns the empty sequence while
\* nothing has been logged, and a status change logged for the order is
\* among the events it returns (a recorded event is never lost).
C36_TimelineListsRecordedEvents ==
    [][\A r \in Reqs, o \in ReqOrderIds :
          TimelineRead(r, o) =>
              /\ req'[r].code = 200
              /\ timeline_log = NoLog => req'[r].events = << >>
              /\ (timeline_log.event = "STATUS_CHANGE" /\ timeline_log.order_id = o)
                 => \E i \in DOMAIN req'[r].events :
                        req'[r].events[i].event_type = "STATUS_CHANGE"]_vars

\* C37: the old_status a transition hands to the timeline equals the status
\* the order had immediately before that transition's write, also when
\* another transition request for the order runs between the read of the
\* status and the write.
C37_LoggedOldStatusIsStatusBeforeWrite ==
    [][\A r \in Reqs, o \in ReqOrderIds :
          (/\ req[r].pc = "update"
           /\ req'[r].pc = "responded"
           /\ req'[r].code = 200
           /\ req[r].order_id = o
           /\ OrderExists(o))
          => /\ req'[r].tasks # << >>
             /\ LET t == req'[r].tasks[Len(req'[r].tasks)]
                IN  /\ t.fn = "log_status_change"
                    /\ t.old_status = StoredOrder(o).status]_vars

\* C38: whenever update_order_status returns a success result with status S
\* for an order id, an order with that id is in the store with status S; for
\* an id that is not in the store the result is not-found.
C38_SuccessMeansStored ==
    [][\A r \in Reqs, o \in ReqOrderIds :
          StatusWrite(r, o) =>
              /\ req'[r].code = 200
                 => /\ OrderExists(o)'
                    /\ StoredOrder(o)'.status = req'[r].status
              /\ ~OrderExists(o)
                 => /\ req'[r].code = 404
                    /\ req'[r].error = "OrderNotFound"]_vars

\* C39: a stock decrement runs for an order only if the same request's
\* status write to ACCEPTED was committed: the request whose task runs was
\* answered 200 for target ACCEPTED and the order it wrote is in the store
\* with an accepted_at stamp; a request that ended in OrderNotFound,
\* InsufficientStock or another failure never runs the decrement.
C39_DecrementOnlyAfterCommittedAccept ==
    [][\A r \in Reqs, o \in ReqOrderIds :
          DecrementRuns(r, o) =>
              /\ req[r].code = 200
              /\ req[r].error = ""
              /\ req[r].new_status = "ACCEPTED"
              /\ OrderExists(o)
              /\ StoredOrder(o).accepted_at # None]_vars

====
